---- MODULE Spec2Model ----
(***************************************************************************)
(* A model of input_data.py: one interactive session of script(), from the *)
(* date prompt to the rewrite of the subject's file, and the estimation    *)
(* formulas it calls.                                                      *)
(*                                                                         *)
(* Representation.                                                         *)
(*  - A real number is an integer count of thousandths; a product or       *)
(*    quotient by a decimal constant is rounded to that resolution.        *)
(*  - A calendar date, and the text "y-m-d" the code builds from it, is    *)
(*    the tuple <<y, m, d>>; the empty text is <<>>.                       *)
(*  - A numeric value n, and its decimal text in a csv cell, is <<n>>; the *)
(*    empty cell is <<>>.  The gender cell is a string, "" when empty.     *)
(*  - A Python local that may be None is <<>> (None) or <<v>>.             *)
(*  - A dict is a function from its keys; database, an insertion-ordered   *)
(*    dict keyed by date, is a sequence of dicts with distinct dates.      *)
(***************************************************************************)
EXTENDS Integers, Sequences, FiniteSets, TLC

\* ------------------------------------------------------------------ bounds
MaxRows == 2            \* rows in the file found on disk

\* ------------------------------------------------------- field catalogues
constants == <<"gender", "height", "date of birth">>

measurements ==
    << "waist size at narrowest point",
       "waist size at naval",
       "hip size at widest point",
       "thigh size at widest point",
       "neck at narrowest point",
       "biceps at widest point",
       "forearm at widest point",
       "wrist at narrowest point",
       "calf at widest point" >>

vitals == << "resting heart rate" >>

weightlifting == << "squat", "bench press", "row", "overhead press", "deadlift" >>

length_units == << "cm", "inch" >>

weight_units == << "kg", "lb" >>

precision ==
    [ bf |-> 1, bmr |-> 1, cm |-> 100, inch |-> 100, kg |-> 500, lb |-> 1000 ]

Range(s) == { s[k] : k \in 1..Len(s) }

MTime(m) == m \o " measurement time"

TimesOf(s) == [ k \in 1..Len(s) |-> MTime(s[k]) ]

fieldnames ==
    << "date", "gender", "height", "date of birth", "age", "weight",
       "weight measurement time", "bmr", "bf" >>
    \o measurements \o TimesOf(measurements)
    \o weightlifting \o TimesOf(weightlifting)
    \o vitals \o TimesOf(vitals)
    \o << "heart-rate lifetime", "heart-rate lifetime measurement time" >>

\* ------------------------------------------------------------ small tools
None == << >>

Some(v) == << v >>

Put(d, k, v) == [ x \in (DOMAIN d) \cup {k} |-> IF x = k THEN v ELSE d[x] ]

\* int(): truncation toward zero of the quotient a / b, b > 0
Trunc(a, b) == IF a >= 0 THEN a \div b ELSE -((-a) \div b)

round_to(n, p) ==
    IF n >= 0 THEN Trunc(2 * n + p, 2 * p) * p
              ELSE Trunc(2 * n - p, 2 * p) * p

\* <<quotient, remainder>> of a * b by c, for a, b >= 0 and c > 0, by halving
\* b, so that no intermediate product leaves the 32-bit integers
RECURSIVE MulDivRem(_, _, _)
MulDivRem(a, b, c) ==
    IF b = 0 THEN << 0, 0 >>
    ELSE LET h == MulDivRem(a, b \div 2, c)
             q2 == 2 * h[1] + (2 * h[2]) \div c
             r2 == (2 * h[2]) % c
             add == IF b % 2 = 1 THEN a ELSE 0
             r3 == r2 + (add % c)
         IN  << q2 + (add \div c) + (r3 \div c), r3 % c >>

\* a * b / c
MulDiv(a, b, c) ==
    IF a >= 0 THEN MulDivRem(a, b, c)[1] ELSE -(MulDivRem(-a, b, c)[1])

cm_to_inch(cm) == MulDiv(cm, 100, 254)

inch_to_cm(inch) == MulDiv(inch, 254, 100)

kg_to_lb(kg) == MulDiv(kg, 220462, 100000)

lb_to_kg(lb) == MulDiv(lb, 100000, 220462)

\* ---------------------------------------------------------------- calendar
IsLeap(y) == (y % 4 = 0) /\ ((y % 100 # 0) \/ (y % 400 = 0))

DaysInMonth(y, m) ==
    IF m = 2 THEN (IF IsLeap(y) THEN 29 ELSE 28)
    ELSE IF m \in {4, 6, 9, 11} THEN 30 ELSE 31

\* datetime(year=, month=, day=) accepts exactly these; otherwise ValueError
IsValidDate(t) ==
    /\ Len(t) = 3
    /\ t[1] \in 1..9999
    /\ t[2] \in 1..12
    /\ t[3] \in 1..DaysInMonth(t[1], t[2])

RECURSIVE DaysBeforeMonth(_, _)
DaysBeforeMonth(y, m) ==
    IF m <= 1 THEN 0 ELSE DaysBeforeMonth(y, m - 1) + DaysInMonth(y, m - 1)

\* the proleptic Gregorian ordinal of a valid date
Ordinal(t) ==
    LET y == t[1] - 1
    IN  y * 365 + (y \div 4) - (y \div 100) + (y \div 400)
        + DaysBeforeMonth(t[1], t[2]) + t[3]

\* (a - b).days for two dates
DaysBetween(a, b) == Ordinal(a) - Ordinal(b)

\* ------------------------------------------------------------ the formulas
\* how a call ends: a number returned, None returned, nan returned, or raised
Ret(v) == [ kind |-> "value", val |-> v, type |-> "", line |-> 0 ]

RetNone == [ kind |-> "None", val |-> 0, type |-> "", line |-> 0 ]

RetNaN == [ kind |-> "nan", val |-> 0, type |-> "", line |-> 0 ]

Raise(t, l) == [ kind |-> "raise", val |-> 0, type |-> t, line |-> l ]

\* np.log10 of x > 0, from log10 of the leading digit and a linear step to the
\* next digit
Log10Digit(d) ==
    CASE d = 1 -> 0 [] d = 2 -> 301 [] d = 3 -> 477 [] d = 4 -> 602
      [] d = 5 -> 699 [] d = 6 -> 778 [] d = 7 -> 845 [] d = 8 -> 903
      [] d = 9 -> 954 [] OTHER -> 1000

RECURSIVE log10(_)
log10(x) ==
    IF x >= 10000 THEN 1000 + log10(x \div 10)
    ELSE IF x < 1000 THEN log10(x * 10) - 1000
    ELSE LET d == x \div 1000
         IN  Log10Digit(d)
             + ((Log10Digit(d + 1) - Log10Digit(d)) * (x - 1000 * d)) \div 1000

bmr_katch_mcardle(weight, bf_) ==
    Ret(370000 + MulDiv(MulDiv(weight, 1000 - bf_, 1000), 216, 10))

bmr_revised_harris_benedict(weight, height_, age, gender_) ==
    IF gender_ = "female"
    THEN Ret(447593 + MulDiv(weight, 9247, 1000) + MulDiv(height_, 3098, 1000)
                 - MulDiv(age, 4330, 1000))
    ELSE IF gender_ = "male"
    THEN Ret(88362 + MulDiv(weight, 13397, 1000) + MulDiv(height_, 4799, 1000)
                 - MulDiv(age, 5677, 1000))
    ELSE RetNone

bmr_mifflin_st_jeor(weight, height_, age, gender_) ==
    IF gender_ = "female"
    THEN Ret(MulDiv(weight, 9990, 1000) + MulDiv(height_, 6250, 1000)
             - MulDiv(age, 4920, 1000) - 161000)
    ELSE IF gender_ = "male"
    THEN Ret(MulDiv(weight, 9990, 1000) + MulDiv(height_, 6250, 1000)
             - MulDiv(age, 4920, 1000) + 5000)
    ELSE RetNone

bmr_owen(weight, gender_) ==
    IF gender_ = "female" THEN Ret(MulDiv(weight, 7180, 1000) + 795000)
    ELSE IF gender_ = "male" THEN Ret(MulDiv(weight, 10200, 1000) + 879000)
    ELSE RetNone

\* the first of outs, in order, that raised; Ret(0) when none did
RECURSIVE FirstRaise(_, _)
FirstRaise(outs, k) ==
    IF k > Len(outs) THEN Ret(0)
    ELSE IF outs[k].kind = "raise" THEN outs[k]
    ELSE FirstRaise(outs, k + 1)

RECURSIVE SumVals(_, _)
SumVals(outs, k) == IF k > Len(outs) THEN 0 ELSE outs[k].val + SumVals(outs, k + 1)

\* np.mean of the list the comprehension built; line is that of the np.mean
Ensemble(outs, line) ==
    LET r == FirstRaise(outs, 1)
    IN  IF r.kind = "raise" THEN r
        ELSE IF \E k \in 1..Len(outs) : outs[k].kind = "None"
        THEN Raise("TypeError", line)
        ELSE IF \E k \in 1..Len(outs) : outs[k].kind = "nan" THEN RetNaN
        ELSE Ret(SumVals(outs, 1) \div Len(outs))

\* kw: the keyword arguments of the call, as a record
bmr(kw) ==
    Ensemble(<< bmr_katch_mcardle(kw.weight, kw.bf),
                bmr_revised_harris_benedict(kw.weight, kw.height, kw.age, kw.gender),
                bmr_mifflin_st_jeor(kw.weight, kw.height, kw.age, kw.gender),
                bmr_owen(kw.weight, kw.gender) >>, 209)

\* with cm set, three values are unpacked into five names: ValueError
bf_dod(waist, naval, hips, neck, height_, gender_, cm) ==
    IF cm THEN Raise("ValueError", 214)
    ELSE IF gender_ = "female"
    THEN IF waist + hips - neck <= 0 \/ height_ <= 0 THEN RetNaN
         ELSE Ret((MulDiv(log10(waist + hips - neck), 163205, 1000)
                   - MulDiv(log10(height_), 97684, 1000) - 78387) \div 100)
    ELSE IF gender_ = "male"
    THEN IF naval - neck <= 0 \/ height_ <= 0 THEN RetNaN
         ELSE Ret((MulDiv(log10(naval - neck), 86010, 1000)
                   - MulDiv(log10(height_), 70041, 1000) + 36760) \div 100)
    ELSE Raise("UnboundLocalError", 225)

\* with cm set, three values are unpacked into four names: ValueError
bf_cb(hips, thigh, calf, wrist, gender_, age, cm) ==
    IF cm THEN Raise("ValueError", 230)
    ELSE IF gender_ = "female"
    THEN IF age <= 30000
         THEN Ret((hips + MulDiv(thigh, 8, 10) - 2 * calf - wrist) \div 100)
         ELSE Ret((hips + thigh - 2 * calf - wrist) \div 100)
    ELSE IF gender_ = "male"
    THEN IF age <= 30000
         THEN Ret((hips \div 2 + thigh - 3 * calf - wrist) \div 100)
         ELSE Ret((hips \div 2 + thigh - MulDiv(calf, 27, 10) - wrist) \div 100)
    ELSE Raise("UnboundLocalError", 245)

bf_mod_ymca(weight, wrist, waist, hips, forearm, gender_, kg, cm) ==
    LET w == IF kg THEN kg_to_lb(weight) ELSE weight
    IN  IF cm THEN Raise("ValueError", 253)
        ELSE IF gender_ = "female"
        THEN IF w = 0 THEN Raise("ZeroDivisionError", 258)
             ELSE Ret(MulDiv(MulDiv(w, 268, 1000) - MulDiv(wrist, 318, 1000)
                             + MulDiv(waist, 157, 1000) + MulDiv(hips, 245, 1000)
                             - MulDiv(forearm, 434, 1000) - 8987, 1000, w))
        ELSE IF gender_ = "male"
        THEN IF w = 0 THEN Raise("ZeroDivisionError", 261)
             ELSE Ret(MulDiv(MulDiv(wrist, 4150, 1000) - MulDiv(w, 82, 1000)
                             - 94420, 1000, w))
        ELSE RetNone

bf(kw) ==
    Ensemble(<< bf_dod(kw.waist, kw.naval, kw.hips, kw.neck, kw.height,
                       kw.gender, kw.cm),
                bf_cb(kw.hips, kw.thigh, kw.calf, kw.wrist, kw.gender, kw.age,
                      kw.cm),
                bf_mod_ymca(kw.weight, kw.wrist, kw.waist, kw.hips, kw.forearm,
                            kw.gender, kw.kg, kw.cm) >>, 274)

\* 48.8 + 53.8 * exp(-0.075 * r), in ten-thousandths, for the repetitions used
OrmDenominator(r) ==
    CASE r = 1 -> 987126 [] r = 2 -> 951061 [] r = 3 -> 917602
      [] r = 4 -> 886560 [] r = 5 -> 857762 [] r = 6 -> 831044
      [] r = 7 -> 806257 [] r = 8 -> 783261 [] r = 9 -> 761926
      [] r = 10 -> 742133 [] r = 11 -> 723770 [] r = 12 -> 706734

one_rep_max(w, r, unit) ==
    IF unit \notin { "kg", "lb" } THEN Raise("NotImplementedError", 304)
    ELSE LET lb == IF unit = "kg" THEN kg_to_lb(w) ELSE w
         IN  Ret(lb_to_kg(MulDiv(lb, 1000000, OrmDenominator(r))))

\* ------------------------------------------------------------------ inputs
\* what the operator may type at the observation-date prompt, and at its
\* retry; 2021-2-29 is no date
DateInputs == { <<2020, 2, 29>>, <<2020, 3, 1>>, <<2021, 2, 29>> }

DateRetryInputs == { <<2020, 2, 29>>, <<2021, 2, 29>> }

DobInputs == { <<2000, 1, 15>>, <<2000, 2, 30>> }

\* the day the session is run on, datetime.now()
Todays == { <<2020, 3, 1>>, <<2020, 3, 2>> }

\* a height typed at the prompt, with the unit then selected
HeightInputs == { [h |-> 170000, unit |-> "cm"], [h |-> 71000, unit |-> "inch"] }

WeightInputs == { [w |-> 70200, unit |-> "kg"], [w |-> 154000, unit |-> "lb"] }

\* every circumference of a session is typed as this number, in this unit
SizeInputs == { [s |-> 80000, unit |-> "cm"], [s |-> 31000, unit |-> "inch"] }

\* the same load, 100 kg, typed in either unit
LiftInputs == { [w |-> 100000, r |-> 5, unit |-> "kg"],
                [w |-> 220000, r |-> 5, unit |-> "lb"] }

\* the lifts the operator answers "yes" for, in some sessions
LiftsAnswered == { "squat", "deadlift" }

HeartRateInputs == { 62 }

\* hours + minutes / 60 for 08:30
TimeInputs == { 8500 }

\* popt[1] of a fit that converges
FitResults == { 314 }

\* ----------------------------------------------------- the file on disk
\* open(database_file) raises IOError when exists is FALSE
NoFile == [ exists |-> FALSE, rows |-> << >> ]

File(rows) == [ exists |-> TRUE, rows |-> rows ]

Blank(f) == IF f = "gender" THEN "" ELSE << >>

\* a row written by an earlier session that entered weight and vitals
OldRow(d, g, h, b) ==
    [ f \in Range(fieldnames) |->
        CASE f = "date" -> d
          [] f = "gender" -> g
          [] f = "height" -> << h >>
          [] f = "date of birth" -> b
          [] f = "age" -> << 20140 >>
          [] f = "weight" -> << 70000 >>
          [] f = "weight measurement time" -> << 8500 >>
          [] f = "resting heart rate" -> << 60 >>
          [] f = "resting heart rate measurement time" -> << 8500 >>
          [] OTHER -> Blank(f) ]

\* the constant fields of a subject, and the rows that differ from them in one
\* field: by an empty text or a zero, or by another value
FileConstants ==
    LET base == [ g |-> "male", h |-> 170000, b |-> <<2000, 1, 15>> ]
    IN  { base }
        \cup { [ base EXCEPT !.g = x ] : x \in { "", "female" } }
        \cup { [ base EXCEPT !.h = x ] : x \in { 0, 180000 } }
        \cup { [ base EXCEPT !.b = x ] : x \in { << >>, <<1999, 12, 31>> } }

FileRows ==
    { OldRow(d, c.g, c.h, c.b) :
        d \in { <<2020, 1, 5>>, <<2020, 2, 29>> }, c \in FileConstants }

RECURSIVE SeqsUpTo(_, _)
SeqsUpTo(S, n) ==
    IF n = 0 THEN { << >> }
    ELSE LET shorter == SeqsUpTo(S, n - 1)
         IN  shorter \cup { Append(q, x) : q \in shorter, x \in S }

Files == { File(q) : q \in SeqsUpTo(FileRows, MaxRows) }

\* ------------------------------------------------------------------- state
VARIABLES
    pc,         \* where script() is: "date" (315), "load" (333), "entry" (394),
                \*   "weight" (411), "vitals" (424), "body" (433), "lifts" (477),
                \*   "hr" (504), "save" (533), "done" (563), "crashed"; or, for
                \*   a formula called directly, "fn" and "returned"
    exc,        \* the uncaught exception that ended the session, and its line
    today,      \* datetime.now() (405), as a date
    disk,       \* the subject's file (337, 537): whether it exists, its rows
    loaded,     \* the rows csv.DictReader yielded in this session (338-344)
    dateIn,     \* the dates typed at the observation-date prompt (315-326)
    dobIn,      \* the dates typed at the date-of-birth prompt (375-387)
    heightIn,   \* the height typed and its unit (368-370), None when read
                \*   from the file
    date,       \* script's local date (331)
    database,   \* script's local database (333)
    gender,     \* script's local gender (340, 366)
    height,     \* script's local height (341, 368)
    dob,        \* script's local dob (342, 392)
    entry,      \* script's local entry_dict (399)
    quantized,  \* the keys of entry_dict whose value is the result of round_to
    liftIn,     \* what was typed for each lift entered (483-489)
    call        \* the last direct call of a formula and how it ended

vars == << pc, exc, today, disk, loaded, dateIn, dobIn, heightIn, date, database, gender,
           height, dob, entry, quantized, liftIn, call >>

NoExc == [ type |-> "", line |-> 0 ]

Raised(t, l) == [ type |-> t, line |-> l ]

NoCall == [ fn |-> "" ]

EmptyDict == [ x \in {} |-> << >> ]

Init ==
    /\ pc = "date"
    /\ exc = NoExc
    /\ today \in Todays
    /\ disk \in {NoFile} \cup Files
    /\ loaded = << >>
    /\ dateIn = << >>
    /\ dobIn = << >>
    /\ heightIn = None
    /\ date = None
    /\ database = << >>
    /\ gender = None
    /\ height = None
    /\ dob = None
    /\ entry = EmptyDict
    /\ quantized = {}
    /\ liftIn = EmptyDict
    /\ call = NoCall

\* an uncaught exception ends the process
Crash(t, l) == pc' = "crashed" /\ exc' = Raised(t, l)

\* lines 315-331: the observation date, with one retry
EnterDate ==
    /\ pc = "date"
    /\ \E first \in DateInputs :
         IF IsValidDate(first)
         THEN /\ dateIn' = << first >>
              /\ date' = first
              /\ pc' = "load"
              /\ exc' = exc
         ELSE \E retry \in DateRetryInputs :
                /\ dateIn' = << first, retry >>
                /\ IF IsValidDate(retry)
                   THEN date' = retry /\ pc' = "load" /\ exc' = exc
                   ELSE date' = date /\ Crash("ValueError", 329)
    /\ UNCHANGED << today, disk, loaded, dobIn, heightIn, database, gender,
                    height, dob, entry, quantized, liftIn, call >>

\* ----------------------------------------------------------- the database
\* a store that updates the dict found at the key instead of replacing it
UpsertMerge(db, key, d) ==
    IF \E k \in 1..Len(db) : db[k]["date"] = key
    THEN [ k \in 1..Len(db) |->
             IF db[k]["date"] = key
             THEN [ f \in (DOMAIN db[k]) \cup (DOMAIN d) |->
                      IF f \in DOMAIN d THEN d[f] ELSE db[k][f] ]
             ELSE db[k] ]
    ELSE Append(db, d)

\* a store that forgets the other keys
UpsertOnly(db, key, d) == << d >>

\* database[key] = d on an insertion-ordered dict: a key already present keeps
\* its position and its whole value is replaced
Upsert(db, key, d) ==
    IF \E k \in 1..Len(db) : db[k]["date"] = key
    THEN [ k \in 1..Len(db) |-> IF db[k]["date"] = key THEN d ELSE db[k] ]
    ELSE Append(db, d)

\* `if x:` for a local that is None or a str, None or a float, None or a date text
TruthyStr(x) == x # None /\ x[1] # ""

TruthyNum(x) == x # None /\ x[1] # 0

TruthyDate(x) == x # None /\ x[1] # << >>

\* lines 344-360, one row replayed on the state st of the loop; st.exc is set
\* by the first statement that raises and the rows after it are not read
LoadRow(st, row) ==
    LET db == Upsert(st.database, row["date"], row)
        s1 == [ st EXCEPT !.database = db ]
    IN  IF TruthyStr(st.gender) /\ st.gender[1] # row["gender"]
        THEN [ s1 EXCEPT !.exc = Raised("AssertionError", 348) ]
        ELSE
        LET s2 == [ s1 EXCEPT !.gender = Some(row["gender"]) ]
        IN  IF row["height"] = << >>
            THEN [ s2 EXCEPT !.exc =
                     Raised("ValueError", IF TruthyNum(st.height) THEN 353 ELSE 355) ]
            ELSE IF TruthyNum(st.height) /\ st.height[1] # row["height"][1]
            THEN [ s2 EXCEPT !.exc = Raised("AssertionError", 353) ]
            ELSE
            LET s3 == [ s2 EXCEPT !.height = Some(row["height"][1]) ]
            IN  IF TruthyDate(st.dob) /\ st.dob[1] # row["date of birth"]
                THEN [ s3 EXCEPT !.exc = Raised("AssertionError", 358) ]
                ELSE [ s3 EXCEPT !.dob = Some(row["date of birth"]) ]

RECURSIVE LoadRows(_, _, _)
LoadRows(st, rows, k) ==
    IF k > Len(rows) \/ st.exc # NoExc THEN st
    ELSE LoadRows(LoadRow(st, rows[k]), rows, k + 1)

\* lines 333-360: the file exists and is replayed into database
LoadFile ==
    /\ pc = "load"
    /\ disk.exists
    /\ LET st == LoadRows([ database |-> << >>, gender |-> None, height |-> None,
                            dob |-> None, exc |-> NoExc ], disk.rows, 1)
       IN  /\ loaded' = disk.rows
           /\ database' = st.database
           /\ gender' = st.gender
           /\ height' = st.height
           /\ dob' = st.dob
           /\ exc' = st.exc
           /\ pc' = IF st.exc = NoExc THEN "entry" ELSE "crashed"
    /\ UNCHANGED << today, disk, dateIn, dobIn, heightIn, date, entry,
                    quantized, liftIn, call >>

\* lines 362-392: no file; the constant fields are asked for
CreateDatabase ==
    /\ pc = "load"
    /\ ~disk.exists
    /\ \E g \in { "male", "female" }, hin \in HeightInputs, first \in DobInputs :
         /\ hin.unit \in Range(length_units)
         /\ gender' = Some(g)
         /\ heightIn' = Some(hin)
         /\ height' = Some(IF hin.unit = "inch" THEN inch_to_cm(hin.h) ELSE hin.h)
         /\ IF IsValidDate(first)
            THEN /\ dobIn' = << first >>
                 /\ dob' = Some(first)
                 /\ pc' = "entry"
                 /\ exc' = exc
            ELSE \E retry \in DobInputs :
                 \* line 390 passes dob_month= and dob_day= to datetime()
                 /\ dobIn' = << first, retry >>
                 /\ dob' = dob
                 /\ Crash("TypeError", 390)
    /\ UNCHANGED << today, disk, loaded, dateIn, date, database, entry,
                    quantized, liftIn, call >>

\* lines 394-407: entry_dict is begun with the constant fields and the age
BuildEntry ==
    /\ pc = "entry"
    /\ IF dob = None
       THEN Crash("AttributeError", 405) /\ UNCHANGED entry
       ELSE IF ~IsValidDate(dob[1])
       THEN Crash("ValueError", 406) /\ UNCHANGED entry
       ELSE /\ entry' =
                 [ f \in { "date", "gender", "height", "date of birth", "age" } |->
                     CASE f = "date" -> date
                       [] f = "gender" -> gender[1]
                       [] f = "height" -> << height[1] >>
                       [] f = "date of birth" -> dob[1]
                       [] f = "age" ->
                            << MulDiv(DaysBetween(today, dob[1]), 1000, 365) >> ]
            /\ pc' = "weight"
            /\ exc' = exc
    /\ UNCHANGED << today, disk, loaded, dateIn, dobIn, heightIn, date, database,
                    gender, height, dob, quantized, liftIn, call >>

\* lines 411-420
WeightSection ==
    /\ pc = "weight"
    /\ \/ UNCHANGED << entry, quantized >>
       \/ \E win \in WeightInputs, t \in TimeInputs :
            /\ win.unit \in Range(weight_units)
            /\ LET weight == IF win.unit = "lb" THEN lb_to_kg(win.w) ELSE win.w
               IN  /\ entry' = Put(Put(entry, "weight",
                                       << round_to(weight, precision.kg) >>),
                                   "weight measurement time", << t >>)
                   /\ quantized' = quantized \cup { "weight" }
    /\ pc' = "vitals"
    /\ UNCHANGED << exc, today, disk, loaded, dateIn, dobIn, heightIn, date,
                    database, gender, height, dob, liftIn, call >>

\* lines 424-429
VitalsSection ==
    /\ pc = "vitals"
    /\ \/ UNCHANGED entry
       \/ \E v \in HeartRateInputs, t \in TimeInputs :
            entry' = Put(Put(entry, vitals[1], << v >>), MTime(vitals[1]), << t >>)
    /\ pc' = "body"
    /\ UNCHANGED << exc, today, disk, loaded, dateIn, dobIn, heightIn, date,
                    database, gender, height, dob, quantized, liftIn, call >>

\* lines 439-448: the loop over measurements, from position k on
RECURSIVE PutSizes(_, _, _, _)
PutSizes(d, k, size, t) ==
    IF k > Len(measurements) THEN d
    ELSE PutSizes(Put(Put(d, measurements[k], << round_to(size, precision.cm) >>),
                      MTime(measurements[k]), << t >>),
                  k + 1, size, t)

\* lines 453-467: the keyword arguments script() gives bf(); cm and kg are not
\* given and take their defaults
BfArgs(d) ==
    [ height |-> d["height"][1], weight |-> d["weight"][1], age |-> d["age"][1],
      gender |-> d["gender"],
      waist |-> d["waist size at narrowest point"][1],
      naval |-> d["waist size at naval"][1],
      hips |-> d["hip size at widest point"][1],
      thigh |-> d["thigh size at widest point"][1],
      neck |-> d["neck at narrowest point"][1],
      biceps |-> d["biceps at widest point"][1],
      forearm |-> d["forearm at widest point"][1],
      wrist |-> d["wrist at narrowest point"][1],
      calf |-> d["calf at widest point"][1],
      cm |-> TRUE, kg |-> TRUE ]

\* lines 469-475
BmrArgs(d) ==
    [ height |-> d["height"][1], weight |-> d["weight"][1], age |-> d["age"][1],
      gender |-> d["gender"], bf |-> d["bf"][1] ]

\* lines 433-475
BodySection ==
    /\ pc = "body"
    /\ \/ /\ pc' = "lifts"
          /\ UNCHANGED << entry, quantized, exc >>
       \/ \E sin \in { x \in SizeInputs : x.unit \in Range(length_units) },
             t \in TimeInputs :
            LET size == IF sin.unit = "inch" THEN inch_to_cm(sin.s) ELSE sin.s
                e1 == PutSizes(entry, 1, size, t)
                q1 == quantized \cup Range(measurements)
            IN  IF "weight" \notin DOMAIN e1
                THEN /\ entry' = e1
                     /\ quantized' = q1
                     /\ pc' = "lifts"
                     /\ exc' = exc
                ELSE
                LET rbf == bf(BfArgs(e1))
                    e2 == Put(e1, "bf", << round_to(rbf.val, precision.bf) >>)
                    rbmr == bmr(BmrArgs(e2))
                IN  IF rbf.kind # "value"
                    THEN /\ entry' = e1
                         /\ quantized' = q1
                         \* int() of a nan raises in round_to
                         /\ IF rbf.kind = "nan" THEN Crash("ValueError", 123)
                            ELSE Crash(rbf.type, rbf.line)
                    ELSE IF rbmr.kind # "value"
                    THEN /\ entry' = e2
                         /\ quantized' = q1 \cup { "bf" }
                         /\ IF rbmr.kind = "nan" THEN Crash("ValueError", 123)
                            ELSE Crash(rbmr.type, rbmr.line)
                    ELSE /\ entry' = Put(e2, "bmr",
                                         << round_to(rbmr.val, precision.bmr) >>)
                         /\ quantized' = q1 \cup { "bf", "bmr" }
                         /\ pc' = "lifts"
                         /\ exc' = exc
    /\ UNCHANGED << today, disk, loaded, dateIn, dobIn, heightIn, date, database,
                    gender, height, dob, liftIn, call >>

\* lines 481-498: one turn of the loop over weightlifting, answered yes with
\* the input lin, applied to the entry and the log st
PutLift(st, m, lin, t) ==
    LET r == one_rep_max(lin.w, lin.r, lin.unit)
        orm == IF lin.unit = "lb" THEN lb_to_kg(r.val) ELSE r.val
    IN  [ entry |-> Put(Put(st.entry, m, << round_to(orm, precision.kg) >>),
                        MTime(m), << t >>),
          quantized |-> st.quantized \cup { m },
          liftIn |-> Put(st.liftIn, m, lin) ]

\* the loop from position k on; ans gives the input of each lift answered yes
RECURSIVE PutLifts(_, _, _, _)
PutLifts(st, k, ans, t) ==
    IF k > Len(weightlifting) THEN st
    ELSE PutLifts(IF weightlifting[k] \in DOMAIN ans
                  THEN PutLift(st, weightlifting[k], ans[weightlifting[k]], t)
                  ELSE st,
                  k + 1, ans, t)

\* lines 477-498: the loop over weightlifting
LiftSection ==
    /\ pc = "lifts"
    /\ \E yes \in SUBSET (Range(weightlifting) \cap LiftsAnswered) :
         \E ans \in [ yes -> { x \in LiftInputs : x.unit \in Range(weight_units) } ],
            t \in TimeInputs :
           LET st == PutLifts([ entry |-> entry, quantized |-> quantized,
                                liftIn |-> liftIn ], 1, ans, t)
           IN  /\ entry' = st.entry
               /\ quantized' = st.quantized
               /\ liftIn' = st.liftIn
    /\ pc' = "hr"
    /\ UNCHANGED << exc, today, disk, loaded, dateIn, dobIn, heightIn, date,
                    database, gender, height, dob, call >>

\* lines 504-531: the samples are collected and curve_fit either converges to
\* some popt or raises RuntimeError
HeartRateSection ==
    /\ pc = "hr"
    /\ \/ /\ pc' = "save"
          /\ UNCHANGED << entry, exc >>
       \/ \E b \in FitResults, t \in TimeInputs :
            /\ entry' = Put(Put(entry, "heart-rate lifetime", << b >>),
                            "heart-rate lifetime measurement time", << t >>)
            /\ pc' = "save"
            /\ exc' = exc
       \/ /\ Crash("RuntimeError", 528)
          /\ UNCHANGED entry
    /\ UNCHANGED << today, disk, loaded, dateIn, dobIn, heightIn, date, database,
                    gender, height, dob, quantized, liftIn, call >>

\* csv.DictWriter.writerow: a key the dict lacks is written as the empty text
WriteRow(d) ==
    [ f \in Range(fieldnames) |-> IF f \in DOMAIN d THEN d[f] ELSE Blank(f) ]

\* lines 533-560
Save ==
    /\ pc = "save"
    /\ LET db == Upsert(database, date, entry)
       IN  /\ database' = db
           /\ disk' = File([ k \in 1..Len(db) |-> WriteRow(db[k]) ])
    /\ pc' = "done"
    /\ UNCHANGED << exc, today, loaded, dateIn, dobIn, heightIn, date, gender,
                    height, dob, entry, quantized, liftIn, call >>

Next ==
    \/ EnterDate
    \/ LoadFile
    \/ CreateDatabase
    \/ BuildEntry
    \/ WeightSection
    \/ VitalsSection
    \/ BodySection
    \/ LiftSection
    \/ HeartRateSection
    \/ Save

Spec == Init /\ [][Next]_vars

\* ------------------------------------------- the formulas called directly
\* keyword arguments for a direct call: lengths and masses in the unit the two
\* flags name, and a gender the branches do not know
FnArgs ==
    { [ weight |-> w, height |-> 69000, age |-> a, gender |-> g, bf |-> 150,
        waist |-> 32000, naval |-> 34000, hips |-> 38000, thigh |-> 22000,
        neck |-> 15000, biceps |-> 13000, forearm |-> 11000, wrist |-> 7000,
        calf |-> 15000, cm |-> c, kg |-> k ] :
        w \in { 70000, 154000 }, a \in { 25000, 40000 },
        g \in { "male", "female", "other" }, c \in BOOLEAN, k \in BOOLEAN }

OrmArgs ==
    { [ w |-> w, r |-> r, unit |-> u ] :
        w \in { 100000, 220000 }, r \in { 1, 5, 10 }, u \in { "kg", "lb", "stone" } }

InitFn ==
    /\ pc = "fn"
    /\ exc = NoExc
    /\ today \in Todays
    /\ disk = NoFile
    /\ loaded = << >>
    /\ dateIn = << >>
    /\ dobIn = << >>
    /\ heightIn = None
    /\ date = None
    /\ database = << >>
    /\ gender = None
    /\ height = None
    /\ dob = None
    /\ entry = EmptyDict
    /\ quantized = {}
    /\ liftIn = EmptyDict
    /\ call = NoCall

FnFrame == << exc, today, disk, loaded, dateIn, dobIn, heightIn, date,
              database, gender, height, dob, entry, quantized, liftIn >>

CallBmrFormula ==
    /\ pc = "fn"
    /\ \E kw \in FnArgs :
         \E c \in { [ fn |-> "bmr_katch_mcardle", kw |-> kw,
                      out |-> bmr_katch_mcardle(kw.weight, kw.bf) ],
                    [ fn |-> "bmr_revised_harris_benedict", kw |-> kw,
                      out |-> bmr_revised_harris_benedict(kw.weight, kw.height,
                                                          kw.age, kw.gender) ],
                    [ fn |-> "bmr_mifflin_st_jeor", kw |-> kw,
                      out |-> bmr_mifflin_st_jeor(kw.weight, kw.height, kw.age,
                                                  kw.gender) ],
                    [ fn |-> "bmr_owen", kw |-> kw,
                      out |-> bmr_owen(kw.weight, kw.gender) ] } :
            call' = c
    /\ pc' = "returned"
    /\ UNCHANGED FnFrame

CallBfFormula ==
    /\ pc = "fn"
    /\ \E kw \in FnArgs :
         \E c \in { [ fn |-> "bf_dod", kw |-> kw,
                      out |-> bf_dod(kw.waist, kw.naval, kw.hips, kw.neck,
                                     kw.height, kw.gender, kw.cm) ],
                    [ fn |-> "bf_cb", kw |-> kw,
                      out |-> bf_cb(kw.hips, kw.thigh, kw.calf, kw.wrist,
                                    kw.gender, kw.age, kw.cm) ],
                    [ fn |-> "bf_mod_ymca", kw |-> kw,
                      out |-> bf_mod_ymca(kw.weight, kw.wrist, kw.waist, kw.hips,
                                          kw.forearm, kw.gender, kw.kg, kw.cm) ] } :
            call' = c
    /\ pc' = "returned"
    /\ UNCHANGED FnFrame

CallEnsemble ==
    /\ pc = "fn"
    /\ \E kw \in FnArgs :
         \E c \in { [ fn |-> "bmr", kw |-> kw, out |-> bmr(kw) ],
                    [ fn |-> "bf", kw |-> kw, out |-> bf(kw) ] } :
            call' = c
    /\ pc' = "returned"
    /\ UNCHANGED FnFrame

CallOneRepMax ==
    /\ pc = "fn"
    /\ \E a \in OrmArgs :
         call' = [ fn |-> "one_rep_max", kw |-> a,
                   out |-> one_rep_max(a.w, a.r, a.unit) ]
    /\ pc' = "returned"
    /\ UNCHANGED FnFrame

NextFn ==
    \/ CallBmrFormula
    \/ CallBfFormula
    \/ CallEnsemble
    \/ CallOneRepMax

SpecFn == InitFn /\ [][NextFn]_vars

\* ------------------------------------------------------------- properties
LoadedDates == { loaded[k]["date"] : k \in 1..Len(loaded) }

RowsAt(rows, d) == { k \in 1..Len(rows) : rows[k]["date"] = d }

\* two rows of the file differ in a constant field
Mismatch(rows) ==
    \E j, k \in 1..Len(rows) : \E f \in Range(constants) : rows[j][f] # rows[k][f]

\* the load ended in an uncaught exception
LoadAborted == pc = "crashed" /\ exc.line \in 336..360

\* C1: a file in which two rows differ in gender, in height or in date of
\* birth is never loaded; the session ends in the load with an error,
\* whatever the values are.
C1_MismatchAbortsLoad == Mismatch(loaded) => LoadAborted

\* C2: when the session's date was already in the loaded file, the file written
\* has one row at that date, and each of its fields is the value this session
\* set, or empty when this session set none; the store holds the session's
\* entry at that date and nothing of the old row.
C2_UpsertReplaces ==
    (pc = "done" /\ date \in LoadedDates) =>
        /\ Cardinality(RowsAt(disk.rows, date)) = 1
        /\ \A k \in RowsAt(disk.rows, date) :
             /\ database[k] = entry
             /\ \A f \in Range(fieldnames) :
                  disk.rows[k][f] = IF f \in DOMAIN entry THEN entry[f] ELSE Blank(f)

\* a session that overwrote a row holding a weight and vitals without entering
\* either
C2_Witness ==
    /\ pc = "done"
    /\ date \in LoadedDates
    /\ \E k \in RowsAt(loaded, date) : loaded[k]["weight"] # << >>
    /\ "weight" \notin DOMAIN entry
    /\ "resting heart rate" \notin DOMAIN entry

\* C3: at both date prompts, an invalid first date is followed by one retry; a
\* valid retried date is the one the session goes on with, two invalid dates
\* end the session unsaved, and no invalid date is put in an entry.
C3_DateRetryPolicy ==
    /\ Len(dateIn) = 2 =>
         /\ ~IsValidDate(dateIn[1])
         /\ IF IsValidDate(dateIn[2])
            THEN date = dateIn[2] /\ ~(pc = "crashed" /\ exc.line \in 315..331)
            ELSE pc = "crashed"
    /\ Len(dobIn) = 2 =>
         /\ ~IsValidDate(dobIn[1])
         /\ IF IsValidDate(dobIn[2])
            THEN dob = Some(dobIn[2]) /\ ~(pc = "crashed" /\ exc.line \in 375..392)
            ELSE pc = "crashed"
    /\ "date" \in DOMAIN entry =>
         IsValidDate(entry["date"]) /\ IsValidDate(entry["date of birth"])

\* C4: an entry that has a bmr field has a bf field, and its bmr is the
\* quantized ensemble of the entry's own stored bf.
C4_BmrAfterBf ==
    "bmr" \in DOMAIN entry =>
        /\ "bf" \in DOMAIN entry
        /\ entry["bmr"] = << round_to(bmr(BmrArgs(entry)).val, precision.bmr) >>

\* no session stores a bf or a bmr: the case C4 is about does not occur
C4_NeverComputed == "bf" \notin DOMAIN entry /\ "bmr" \notin DOMAIN entry

\* the fields the session derives or converts
DerivedFields ==
    { "age", "weight", "bf", "bmr", "heart-rate lifetime" }
    \cup Range(measurements) \cup Range(weightlifting)

\* C5: every derived or converted value in the entry is the result of
\* round_to: weight, circumferences, bf, bmr, one-rep-maxes, the heart-rate
\* lifetime, the age, and a height that was converted from inches.
C5_DerivedAreQuantized ==
    \A f \in DOMAIN entry :
        (f \in DerivedFields
         \/ (f = "height" /\ heightIn # None /\ heightIn[1].unit = "inch"))
        => f \in quantized

\* C6: the age of an entry is the number of days from the date of birth to the
\* entry's own date, over 365.
C6_AgeFromEntryDate ==
    "age" \in DOMAIN entry =>
        entry["age"] = << MulDiv(DaysBetween(entry["date"], entry["date of birth"]),
                                 1000, 365) >>

\* the formulas that branch on gender
GenderBranched ==
    { "bmr_revised_harris_benedict", "bmr_mifflin_st_jeor", "bmr_owen",
      "bf_dod", "bf_cb", "bf_mod_ymca" }

\* C7: a gender-branched formula called with a gender other than male and
\* female, and one_rep_max called with a unit other than kg and lb, raises.
C7_DomainErrorsRaise ==
    /\ (call.fn \in GenderBranched /\ call.kw.gender \notin { "male", "female" })
         => call.out.kind = "raise"
    /\ (call.fn = "one_rep_max" /\ call.kw.unit \notin { "kg", "lb" })
         => call.out.kind = "raise"

\* C8: the value stored for a lift is the quantized one-rep-max in kilograms of
\* what was typed, in whichever unit it was typed.
C8_LiftStoredInKg ==
    \A m \in DOMAIN liftIn :
        entry[m] = << round_to(one_rep_max(liftIn[m].w, liftIn[m].r,
                                           liftIn[m].unit).val, precision.kg) >>

\* C9: the file written holds, for every date of the loaded file other than
\* the session's, one row, equal in every field to the (last) loaded row of
\* that date, and no row at a date that is neither loaded nor the session's.
C9_OtherDatesUntouched ==
    pc = "done" =>
        /\ \A d \in LoadedDates \ { date } :
             /\ Cardinality(RowsAt(disk.rows, d)) = 1
             /\ \A k \in RowsAt(disk.rows, d) :
                  \E j \in RowsAt(loaded, d) :
                     /\ \A l \in RowsAt(loaded, d) : l <= j
                     /\ disk.rows[k] = loaded[j]
        /\ \A k \in 1..Len(disk.rows) :
             disk.rows[k]["date"] \in LoadedDates \cup { date }

\* a session that overwrote one date of a file holding two
C9_Witness ==
    /\ pc = "done"
    /\ date \in LoadedDates
    /\ LoadedDates \ { date } # {}
    /\ Len(disk.rows) = 2

\* the premises of C10: every date typed is a date, the file is absent or has
\* rows, with a date of birth, no two of which differ in a constant field, and
\* the fit converged
InputsValid ==
    /\ \A k \in 1..Len(dateIn) : IsValidDate(dateIn[k])
    /\ \A k \in 1..Len(dobIn) : IsValidDate(dobIn[k])
    /\ disk.exists => loaded # << >>
    /\ \A k \in 1..Len(loaded) : IsValidDate(loaded[k]["date of birth"])
    /\ ~Mismatch(loaded)
    /\ exc.type # "RuntimeError"

\* C10: a session whose inputs are all valid does not end in an uncaught
\* exception, whatever optional sections are entered, and the file it writes
\* has a row at the entered date.
C10_ValidSessionSaves ==
    /\ pc = "crashed" => ~InputsValid
    /\ pc = "done" => RowsAt(disk.rows, date) # {}

====
